---- MODULE Spec2Model ----
(***************************************************************************)
(* CodeCopier (src/src/index.ts): the run of main() as a state machine.    *)
(* getConfiguration -> getAllFiles -> selectFiles (the interactive loop    *)
(* askForFile) -> collectCode -> writeOutput, with main's try/catch/       *)
(* finally and the top-level main().catch handler.                         *)
(*                                                                         *)
(* File paths and glob patterns are tuples of one-character strings, so    *)
(* that glob matching is computed character by character.  Lines typed at  *)
(* the (y/n/p/q) prompt are strings.                                       *)
(***************************************************************************)
EXTENDS Integers, Sequences, FiniteSets, TLC

(* ---------------------------------------------------------------------- *)
(* Bounds of the model                                                     *)
(* ---------------------------------------------------------------------- *)

\* longest candidate list that discovery returns
MaxFiles == 3

\* how many lines that make no progress (an invalid answer, a pattern that
\* matches nothing) the user types in one run
MaxRetries == 2

(* ---------------------------------------------------------------------- *)
(* Inputs                                                                  *)
(* ---------------------------------------------------------------------- *)

\* the relative paths that can exist under the working directory, in the
\* sorted order in which glob() reports its matches
SortedPaths ==
    << <<"a", ".", "j", "s">>,
       <<"b", ".", "t", "s">>,
       <<"c", ".", "j", "s">>,
       <<"s", "/", "d", ".", "j", "s">>,
       <<"s", "/", "e", ".", "c", "o", "n", "s", "t", "r", "u", "c", "t", "o", "r">> >>

Paths == { SortedPaths[i] : i \in 1..Len(SortedPaths) }

\* glob patterns typed at the "Enter glob pattern:" prompt (non-empty)
Patterns ==
    { <<"*", ".", "j", "s">>,
      <<"*", "*", "/", "*", ".", "j", "s">>,
      <<"b", ".", "?", "s">>,
      <<"*", ".", "p", "y">>,
      <<"*", "*">> }

\* lines typed at the "Include <file>? (y/n/p/q)" prompt
Answers == {"y", "Y", "n", "N", "p", "P", "q", "Q", "x", "yes"}

\* the value of the locals answer and pattern before anything was read
NoAnswer == "<none>"
NoPattern == << >>

\* what the user meant by a line typed at the (y/n/p/q) prompt, whatever the
\* letter case; it is kept in the history variable used
AnswerKind(a) ==
    CASE a \in {"y", "Y"} -> "y"
      [] a \in {"n", "N"} -> "n"
      [] a \in {"p", "P"} -> "p"
      [] a \in {"q", "Q"} -> "q"
      [] OTHER -> "invalid"

\* the paths at the positions S of SortedPaths, in that order
RECURSIVE PathsAt(_, _)
PathsAt(S, n) ==
    IF n = 0 THEN << >>
    ELSE IF n \in S THEN Append(PathsAt(S, n - 1), SortedPaths[n])
    ELSE PathsAt(S, n - 1)

\* what glob() reports: a sorted, duplicate-free list of at most MaxFiles of
\* the paths
CandidateLists ==
    { PathsAt(S, Len(SortedPaths)) :
        S \in { T \in SUBSET (1..Len(SortedPaths)) : Cardinality(T) <= MaxFiles } }

\* how a field of the parsed configuration file can look
FieldKinds == {"missing", "strings", "notArray", "mixedArray"}

\* the configuration file: absent, unparsable, or an object with two fields
ConfigFiles ==
    [exists : {FALSE}, parses : {FALSE}, exclude : {"missing"}, include : {"missing"}]
    \cup [exists : {TRUE}, parses : {FALSE}, exclude : {"missing"}, include : {"missing"}]
    \cup [exists : {TRUE}, parses : {TRUE}, exclude : FieldKinds, include : FieldKinds]

\* the value of mergedConfig before the configuration file was parsed
NoConfig == [exclude |-> "unset", include |-> "unset"]

\* { exclude: ['node_modules/**', '.git/**'], include: ['**/*.{js,...}'] }
defaultConfig == [exclude |-> "strings", include |-> "strings"]

\* how the glob() callback reports failure
GlobErrors == {"ENOENT", "EACCES", "other"}

(* ---------------------------------------------------------------------- *)
(* Pure functions                                                          *)
(* ---------------------------------------------------------------------- *)

\* String.prototype.toLowerCase on the lines of Answers
ToLowerCaseIdentity(s) == s

ToLowerCase(s) ==
    CASE s = "Y" -> "y"
      [] s = "N" -> "n"
      [] s = "P" -> "p"
      [] s = "Q" -> "q"
      [] OTHER -> s

\* the segments of a path or pattern between "/" characters
RECURSIVE SplitAcc(_, _)
SplitAcc(s, cur) ==
    IF s = << >> THEN << cur >>
    ELSE IF Head(s) = "/" THEN << cur >> \o SplitAcc(Tail(s), << >>)
    ELSE SplitAcc(Tail(s), Append(cur, Head(s)))

Split(s) == SplitAcc(s, << >>)

\* one pattern segment against one path segment: "*" is any run of
\* characters, "?" is one character, anything else is itself
RECURSIVE SegMatch(_, _)
SegMatch(p, s) ==
    IF p = << >> THEN s = << >>
    ELSE IF Head(p) = "*"
        THEN SegMatch(Tail(p), s) \/ (s # << >> /\ SegMatch(p, Tail(s)))
    ELSE IF Head(p) = "?"
        THEN s # << >> /\ SegMatch(Tail(p), Tail(s))
    ELSE s # << >> /\ Head(s) = Head(p) /\ SegMatch(Tail(p), Tail(s))

\* pattern segments against path segments: a "**" segment is any number of
\* path segments
RECURSIVE GlobMatch(_, _)
GlobMatch(ps, ss) ==
    IF ps = << >> THEN ss = << >>
    ELSE IF Head(ps) = <<"*", "*">>
        THEN GlobMatch(Tail(ps), ss) \/ (ss # << >> /\ GlobMatch(ps, Tail(ss)))
    ELSE ss # << >> /\ SegMatch(Head(ps), Head(ss)) /\ GlobMatch(Tail(ps), Tail(ss))

IsMatch(file, pat) == GlobMatch(Split(pat), Split(file))

\* micromatch(list, pattern): the items of list that match, in list order
micromatch(list, pat) == SelectSeq(list, LAMBDA f : IsMatch(f, pat))

\* files.slice(index): the candidates from the cursor to the end
SliceWhole(fs, i) == fs

slice(fs, i) == SubSeq(fs, i + 1, Len(fs))

\* index += matchedFiles.length
AdvanceAssign(i, matched) == Len(matched)

AdvanceByMatched(i, matched) == i + Len(matched)

\* path.extname: the last segment of the path from its last "." on, and
\* nothing when it has no "." or only a leading one
LastDot(b) ==
    IF \E i \in 1..Len(b) : b[i] = "."
        THEN CHOOSE i \in 1..Len(b) :
                b[i] = "." /\ \A j \in (i + 1)..Len(b) : b[j] # "."
        ELSE 0

extname(file) ==
    LET segs == Split(file)
        b == segs[Len(segs)]
    IN IF LastDot(b) <= 1 THEN << >> ELSE SubSeq(b, LastDot(b), Len(b))

\* String.prototype.slice(1)
slice1(str) == IF str = << >> THEN << >> ELSE Tail(str)

\* the properties languageMap inherits from Object.prototype, as the text
\* that string concatenation makes of their values
ObjectPrototype(ext) ==
    CASE ext = <<"c", "o", "n", "s", "t", "r", "u", "c", "t", "o", "r">> -> "function Object() { [native code] }"
      [] ext = <<"t", "o", "S", "t", "r", "i", "n", "g">> -> "function toString() { [native code] }"
      [] ext = <<"t", "o", "L", "o", "c", "a", "l", "e", "S", "t", "r", "i", "n", "g">> -> "function toLocaleString() { [native code] }"
      [] ext = <<"v", "a", "l", "u", "e", "O", "f">> -> "function valueOf() { [native code] }"
      [] ext = <<"h", "a", "s", "O", "w", "n", "P", "r", "o", "p", "e", "r", "t", "y">> -> "function hasOwnProperty() { [native code] }"
      [] ext = <<"i", "s", "P", "r", "o", "t", "o", "t", "y", "p", "e", "O", "f">> -> "function isPrototypeOf() { [native code] }"
      [] ext = <<"p", "r", "o", "p", "e", "r", "t", "y", "I", "s", "E", "n", "u", "m", "e", "r", "a", "b", "l", "e">> -> "function propertyIsEnumerable() { [native code] }"
      [] ext = <<"_", "_", "p", "r", "o", "t", "o", "_", "_">> -> "[object Object]"
      [] OTHER -> "undefined"

\* languageMap[ext]: the object's own entries, then the inherited ones
languageMap(ext) ==
    CASE ext = <<"j", "s">> -> "javascript"
      [] ext = <<"t", "s">> -> "typescript"
      [] ext = <<"p", "y">> -> "python"
      [] ext = <<"j", "a", "v", "a">> -> "java"
      [] ext = <<"c">> -> "c"
      [] ext = <<"c", "p", "p">> -> "cpp"
      [] ext = <<"h">> -> "cpp"
      [] ext = <<"h", "p", "p">> -> "cpp"
      [] ext = <<"c", "s", "s">> -> "css"
      [] ext = <<"h", "t", "m", "l">> -> "html"
      [] OTHER -> ObjectPrototype(ext)

\* getFileExtension: languageMap[ext] || ''
getFileExtension(file) ==
    LET tag == languageMap(slice1(extname(file)))
    IN IF tag = "undefined" THEN "" ELSE tag

\* the pieces that collectCode concatenates into the document
TitlePiece == [kind |-> "title", file |-> << >>, tag |-> ""]

HeaderPiece(file) == [kind |-> "header", file |-> file, tag |-> ""]

FenceOpenPiece(tag) == [kind |-> "fenceOpen", file |-> << >>, tag |-> tag]

ContentPiece(file) == [kind |-> "content", file |-> file, tag |-> ""]

FenceClosePiece == [kind |-> "fenceClose", file |-> << >>, tag |-> ""]

\* validateConfig with the Array.isArray test only
validateConfigArraysOnly(cfg) ==
    cfg.exclude # "notArray" /\ cfg.include # "notArray"

\* validateConfig: both fields arrays, and arrays of strings only
validateConfig(cfg) ==
    /\ cfg.exclude # "notArray" /\ cfg.include # "notArray"
    /\ cfg.exclude # "mixedArray" /\ cfg.include # "mixedArray"

\* { ...defaultConfig, ...parsedConfig }
mergedConfig(parsed) ==
    [exclude |-> IF parsed.exclude = "missing" THEN "strings" ELSE parsed.exclude,
     include |-> IF parsed.include = "missing" THEN "strings" ELSE parsed.include]

\* createProgressBar: const barLength = 30
barLength == 30

\* Math.round(num / den) for den > 0: the nearest integer, halves upwards
Round(num, den) == (2 * num + den) \div (2 * den)

\* String.prototype.repeat for a count that is not negative: count copies
repeat(ch, count) == [k \in 1..count |-> ch]

\* no progress line has been written
NoProgress ==
    [thrown |-> "none", bar |-> << >>, percentage |-> 0, current |-> 0, total |-> 0]

\* createProgressBar with total and current exchanged in the filled width
createProgressBarSwapped(total, current) ==
    LET filled == IF current = 0 THEN -1 ELSE Round(barLength * total, current)
    IN  IF filled < 0 \/ barLength - filled < 0
        THEN [NoProgress EXCEPT !.thrown = "RangeError"]
        ELSE [thrown     |-> "none",
              bar        |-> repeat("#", filled) \o repeat("-", barLength - filled),
              percentage |-> Round(100 * current, total),
              current    |-> current,
              total      |-> total]

\* the function createProgressBar(total) returns, applied to current: the
\* line it writes, or the RangeError repeat throws for a count that is
\* negative or infinite (total = 0 makes the quotient infinite or NaN; NaN
\* repeats nothing, and only 0 / 0 is NaN)
createProgressBar(total, current) ==
    LET filled == IF total = 0 THEN (IF current = 0 THEN 0 ELSE -1)
                  ELSE Round(barLength * current, total)
    IN  IF filled < 0 \/ barLength - filled < 0
        THEN [NoProgress EXCEPT !.thrown = "RangeError"]
        ELSE [thrown     |-> "none",
              bar        |-> repeat("#", filled) \o repeat("-", barLength - filled),
              percentage |-> IF total = 0 THEN 0 ELSE Round(100 * current, total),
              current    |-> current,
              total      |-> total]

(* ---------------------------------------------------------------------- *)
(* State                                                                   *)
(* ---------------------------------------------------------------------- *)

VARIABLES
    pc,            \* where main() is
    error,         \* the error that was thrown inside main's try block
    files,         \* allFiles: the candidate list
    index,         \* the cursor of selectFiles
    selectedFiles, \* the selection
    answer,        \* the last line read at the (y/n/p/q) prompt
    pattern,       \* the last line read at the pattern prompt
    returned,      \* selectFiles has returned
    readCount,     \* collectCode: files read so far
    written,       \* the output file that was written
    rlOpen,        \* the readline interface is open
    mainPromise,   \* the promise main() returned
    exited,        \* the process has exited
    exitCode,      \* with this code
    reads,         \* history: lines read by rl.question
    retries,       \* history: lines that made no progress
    decided,       \* history: how each candidate position was last decided
    used,          \* history: the kinds of answers given so far
    config,        \* the merged configuration getConfiguration worked on
    output,        \* collectCode: the document built so far, piece by piece
    outstanding,   \* rl.question calls whose callback has not run yet
    stages,        \* history: the stages of the pipeline started so far
    progress       \* the progress line updateProgress wrote last

vars == << pc, error, files, index, selectedFiles, answer, pattern,
           returned, readCount, written, rlOpen, mainPromise, exited, exitCode,
           reads, retries, decided, used, config, output, outstanding, stages,
           progress >>

logVars == << config, output, outstanding, stages >>

loopVars == << index, selectedFiles, answer, pattern, returned,
               reads, retries, decided, used >>

tailVars == << readCount, written >>

exitVars == << rlOpen, mainPromise, exited, exitCode >>

Init ==
    /\ pc = "getConfiguration"
    /\ error = "none"
    /\ files = << >>
    /\ index = 0
    /\ selectedFiles = << >>
    /\ answer = NoAnswer
    /\ pattern = NoPattern
    /\ returned = FALSE
    /\ readCount = 0
    /\ written = "none"
    /\ rlOpen = TRUE
    /\ mainPromise = "pending"
    /\ exited = FALSE
    /\ exitCode = 0
    /\ reads = 0
    /\ retries = 0
    /\ decided = << >>
    /\ used = {}
    /\ config = NoConfig
    /\ output = << >>
    /\ outstanding = 0
    /\ stages = << >>
    /\ progress = NoProgress

(* ---------------------------------------------------------------------- *)
(* main: configuration and discovery                                       *)
(* ---------------------------------------------------------------------- *)

\* getConfiguration: defaults when the file is absent; otherwise read,
\* parse, merge and validate, and any failure is rethrown
GetConfiguration ==
    /\ pc = "getConfiguration"
    /\ UNCHANGED progress
    /\ \E cf \in ConfigFiles :
        IF ~cf.exists
            THEN pc' = "getAllFiles" /\ error' = error /\ config' = defaultConfig
        ELSE IF ~cf.parses
            THEN pc' = "catch" /\ error' = "ConfigError" /\ config' = config
        ELSE /\ config' = mergedConfig(cf)
             /\ IF validateConfig(mergedConfig(cf))
                    THEN pc' = "getAllFiles" /\ error' = error
                    ELSE pc' = "catch" /\ error' = "ConfigError"
    /\ stages' = Append(stages, "configuration")
    /\ UNCHANGED << files, output, outstanding >>
    /\ UNCHANGED loopVars
    /\ UNCHANGED tailVars
    /\ UNCHANGED exitVars

\* GetAllFilesResolve without the test allFiles.length === 0
GetAllFilesResolveNoCheck ==
    /\ pc = "getAllFiles"
    /\ UNCHANGED progress
    /\ \E fs \in CandidateLists :
        /\ files' = fs
        /\ decided' = [p \in 1..Len(fs) |-> "none"]
    /\ pc' = "askForFile"
    /\ stages' = stages \o << "discovery", "selection" >>
    /\ UNCHANGED << error, index, selectedFiles, answer, pattern,
                    returned, reads, retries, used >>
    /\ UNCHANGED << config, output, outstanding >>
    /\ UNCHANGED tailVars
    /\ UNCHANGED exitVars

\* getAllFiles resolves with the list glob() reports; main returns when it
\* is empty, and calls selectFiles otherwise
GetAllFilesResolve ==
    /\ pc = "getAllFiles"
    /\ UNCHANGED progress
    /\ \E fs \in CandidateLists :
        /\ files' = fs
        /\ decided' = [p \in 1..Len(fs) |-> "none"]
        /\ pc' = IF Len(fs) = 0 THEN "finally" ELSE "askForFile"
        /\ stages' = IF Len(fs) = 0
                        THEN Append(stages, "discovery")
                        ELSE stages \o << "discovery", "selection" >>
    /\ UNCHANGED << error, index, selectedFiles, answer, pattern,
                    returned, reads, retries, used >>
    /\ UNCHANGED << config, output, outstanding >>
    /\ UNCHANGED tailVars
    /\ UNCHANGED exitVars

\* getAllFiles rejects when glob() reports an error
GetAllFilesReject ==
    /\ pc = "getAllFiles"
    /\ UNCHANGED progress
    /\ \E e \in GlobErrors :
        error' = (CASE e = "ENOENT" -> "DirectoryNotFound"
                    [] e = "EACCES" -> "PermissionDenied"
                    [] OTHER -> "ReadDirectoryError")
    /\ pc' = "catch"
    /\ stages' = Append(stages, "discovery")
    /\ UNCHANGED << files, config, output, outstanding >>
    /\ UNCHANGED loopVars
    /\ UNCHANGED tailVars
    /\ UNCHANGED exitVars

(* ---------------------------------------------------------------------- *)
(* selectFiles: the askForFile loop                                        *)
(* ---------------------------------------------------------------------- *)

\* the candidate positions that hold one of the files of matched
PositionsOf(matched) ==
    { p \in 1..Len(files) : \E k \in 1..Len(matched) : matched[k] = files[p] }

\* Ask when selectFiles does not await askForFile: it returns at once
AskNoAwait ==
    /\ pc = "askForFile"
    /\ index < Len(files)
    /\ progress' = createProgressBar(Len(files), index + 1)
    /\ outstanding' = outstanding + 1
    /\ returned' = TRUE
    /\ pc' = "selected"
    /\ UNCHANGED << error, files, index, selectedFiles, answer,
                    pattern, reads, retries, decided, used >>
    /\ UNCHANGED << config, output, stages >>
    /\ UNCHANGED tailVars
    /\ UNCHANGED exitVars

\* askForFile with candidates left: draw the progress bar, ask the question
Ask ==
    /\ pc = "askForFile"
    /\ index < Len(files)
    /\ LET drawn == createProgressBar(Len(files), index + 1)
       IN  IF drawn.thrown = "none"
           THEN /\ progress' = drawn
                /\ outstanding' = outstanding + 1
                /\ pc' = "awaitAnswer"
                /\ UNCHANGED error
           ELSE /\ error' = drawn.thrown
                /\ pc' = "catch"
                /\ UNCHANGED << progress, outstanding >>
    /\ UNCHANGED << files, config, output, stages >>
    /\ UNCHANGED loopVars
    /\ UNCHANGED tailVars
    /\ UNCHANGED exitVars

\* FinishLoop with the test index > files.length
FinishLoopOffByOne ==
    /\ pc = "askForFile"
    /\ UNCHANGED progress
    /\ index > Len(files)
    /\ returned' = TRUE
    /\ pc' = "selected"
    /\ UNCHANGED << error, files, index, selectedFiles, answer,
                    pattern, reads, retries, decided, used >>
    /\ UNCHANGED tailVars
    /\ UNCHANGED exitVars
    /\ UNCHANGED logVars

\* askForFile with no candidate left: return, and selectFiles returns
FinishLoop ==
    /\ pc = "askForFile"
    /\ UNCHANGED progress
    /\ index >= Len(files)
    /\ returned' = TRUE
    /\ pc' = "selected"
    /\ UNCHANGED << error, files, index, selectedFiles, answer,
                    pattern, reads, retries, decided, used >>
    /\ UNCHANGED tailVars
    /\ UNCHANGED exitVars
    /\ UNCHANGED logVars

\* the user types a line and rl.question resolves the promise with it; a
\* line that the switch reports as invalid is typed at most MaxRetries times
ReadAnswer ==
    /\ pc = "awaitAnswer"
    /\ UNCHANGED progress
    /\ \E a \in Answers :
        /\ ToLowerCase(a) \notin {"y", "n", "p", "q"} => retries < MaxRetries
        /\ answer' = a
        /\ used' = used \cup {AnswerKind(a)}
    /\ reads' = reads + 1
    /\ outstanding' = outstanding - 1
    /\ pc' = "switch"
    /\ UNCHANGED << error, files, index, selectedFiles, pattern, returned,
                    retries, decided >>
    /\ UNCHANGED << config, output, stages >>
    /\ UNCHANGED tailVars
    /\ UNCHANGED exitVars

\* CaseYes with unshift in place of push
CaseYesPrepends ==
    /\ pc = "switch"
    /\ UNCHANGED progress
    /\ ToLowerCase(answer) = "y"
    /\ selectedFiles' = << files[index + 1] >> \o selectedFiles
    /\ index' = index + 1
    /\ decided' = [decided EXCEPT ![index + 1] = "y"]
    /\ answer' = NoAnswer
    /\ pc' = "askForFile"
    /\ UNCHANGED << error, files, pattern, returned, reads, retries, used >>
    /\ UNCHANGED tailVars
    /\ UNCHANGED exitVars
    /\ UNCHANGED logVars

\* case 'y': push the file, index++, then askForFile again
CaseYes ==
    /\ pc = "switch"
    /\ UNCHANGED progress
    /\ ToLowerCase(answer) = "y"
    /\ selectedFiles' = Append(selectedFiles, files[index + 1])
    /\ index' = index + 1
    /\ decided' = [decided EXCEPT ![index + 1] = "y"]
    /\ answer' = NoAnswer
    /\ pc' = "askForFile"
    /\ UNCHANGED << error, files, pattern, returned, reads, retries, used >>
    /\ UNCHANGED tailVars
    /\ UNCHANGED exitVars
    /\ UNCHANGED logVars

\* case 'n': index++, then askForFile again
CaseNo ==
    /\ pc = "switch"
    /\ UNCHANGED progress
    /\ ToLowerCase(answer) = "n"
    /\ index' = index + 1
    /\ decided' = [decided EXCEPT ![index + 1] = "n"]
    /\ answer' = NoAnswer
    /\ pc' = "askForFile"
    /\ UNCHANGED << error, files, selectedFiles, pattern, returned, reads,
                    retries, used >>
    /\ UNCHANGED tailVars
    /\ UNCHANGED exitVars
    /\ UNCHANGED logVars

\* case 'p': ask for the glob pattern
CasePattern ==
    /\ pc = "switch"
    /\ UNCHANGED progress
    /\ ToLowerCase(answer) = "p"
    /\ outstanding' = outstanding + 1
    /\ pc' = "awaitPattern"
    /\ UNCHANGED << error, files, config, output, stages >>
    /\ UNCHANGED loopVars
    /\ UNCHANGED tailVars
    /\ UNCHANGED exitVars

\* the user types the pattern and rl.question resolves the promise with it;
\* a pattern that matches nothing counts as a line that makes no progress
ReadPattern ==
    /\ pc = "awaitPattern"
    /\ UNCHANGED progress
    /\ \E pat \in Patterns :
        /\ Len(micromatch(slice(files, index), pat)) = 0 => retries < MaxRetries
        /\ pattern' = pat
    /\ reads' = reads + 1
    /\ outstanding' = outstanding - 1
    /\ pc' = "matchPattern"
    /\ UNCHANGED << error, files, index, selectedFiles, answer, returned,
                    retries, decided, used >>
    /\ UNCHANGED << config, output, stages >>
    /\ UNCHANGED tailVars
    /\ UNCHANGED exitVars

\* case 'p', after the pattern was read: match it against files.slice(index),
\* push every match, index += matchedFiles.length, then askForFile again
MatchPattern ==
    /\ pc = "matchPattern"
    /\ UNCHANGED progress
    /\ LET matchedFiles == micromatch(slice(files, index), pattern) IN
        /\ selectedFiles' = selectedFiles \o matchedFiles
        /\ index' = AdvanceByMatched(index, matchedFiles)
        /\ retries' = IF Len(matchedFiles) = 0 THEN retries + 1 ELSE retries
        /\ decided' = [p \in DOMAIN decided |->
                         IF p \in PositionsOf(matchedFiles) THEN "p" ELSE decided[p]]
    /\ answer' = NoAnswer
    /\ pattern' = NoPattern
    /\ pc' = "askForFile"
    /\ UNCHANGED << error, files, returned, reads, used >>
    /\ UNCHANGED tailVars
    /\ UNCHANGED exitVars
    /\ UNCHANGED logVars

\* case 'q': return without asking again, and selectFiles returns
CaseQuit ==
    /\ pc = "switch"
    /\ UNCHANGED progress
    /\ ToLowerCase(answer) = "q"
    /\ returned' = TRUE
    /\ pc' = "selected"
    /\ UNCHANGED << error, files, index, selectedFiles, answer, pattern,
                    reads, retries, decided, used >>
    /\ UNCHANGED tailVars
    /\ UNCHANGED exitVars
    /\ UNCHANGED logVars

\* CaseDefault falling through to index++
CaseDefaultSkips ==
    /\ pc = "switch"
    /\ UNCHANGED progress
    /\ ToLowerCase(answer) \notin {"y", "n", "p", "q"}
    /\ index' = index + 1
    /\ retries' = retries + 1
    /\ answer' = NoAnswer
    /\ pc' = "askForFile"
    /\ UNCHANGED << error, files, selectedFiles, pattern, returned, reads,
                    decided, used >>
    /\ UNCHANGED tailVars
    /\ UNCHANGED exitVars
    /\ UNCHANGED logVars

\* default: report the invalid input, then askForFile again
CaseDefault ==
    /\ pc = "switch"
    /\ UNCHANGED progress
    /\ ToLowerCase(answer) \notin {"y", "n", "p", "q"}
    /\ retries' = retries + 1
    /\ answer' = NoAnswer
    /\ pc' = "askForFile"
    /\ UNCHANGED << error, files, index, selectedFiles, pattern, returned,
                    reads, decided, used >>
    /\ UNCHANGED tailVars
    /\ UNCHANGED exitVars
    /\ UNCHANGED logVars

(* ---------------------------------------------------------------------- *)
(* main: after the selection                                               *)
(* ---------------------------------------------------------------------- *)

\* CheckSelection without the test selectedFiles.length === 0
CheckSelectionNoCheck ==
    /\ pc = "selected"
    /\ progress' = NoProgress
    /\ pc' = "collectCode"
    /\ index' = 0
    /\ answer' = NoAnswer
    /\ pattern' = NoPattern
    /\ reads' = 0
    /\ retries' = 0
    /\ decided' = << >>
    /\ used' = {}
    /\ stages' = Append(stages, "assembly")
    /\ output' = << TitlePiece >>
    /\ UNCHANGED << error, files, selectedFiles, returned, config, outstanding >>
    /\ UNCHANGED tailVars
    /\ UNCHANGED exitVars

\* main receives the selection: if (selectedFiles.length === 0) return;
\* otherwise collectCode starts the document with its title.  The locals of
\* selectFiles (index, answer, pattern) are gone, and the bookkeeping of the
\* loop ends with them
CheckSelection ==
    /\ pc = "selected"
    /\ progress' = NoProgress
    /\ pc' = IF Len(selectedFiles) = 0 THEN "finally" ELSE "collectCode"
    /\ index' = 0
    /\ answer' = NoAnswer
    /\ pattern' = NoPattern
    /\ reads' = 0
    /\ retries' = 0
    /\ decided' = << >>
    /\ used' = {}
    /\ stages' = IF Len(selectedFiles) = 0 THEN stages ELSE Append(stages, "assembly")
    /\ output' = IF Len(selectedFiles) = 0 THEN output ELSE << TitlePiece >>
    /\ UNCHANGED << error, files, selectedFiles, returned, config, outstanding >>
    /\ UNCHANGED tailVars
    /\ UNCHANGED exitVars

\* the section of one file: header, opening fence with the language tag,
\* the text of the file, closing fence and blank line
Section(file) ==
    << HeaderPiece(file), FenceOpenPiece(getFileExtension(file)),
       ContentPiece(file), FenceClosePiece >>

\* collectCode, one iteration of forEach: the file is read and its section
\* is added to the document
ReadFileOk ==
    /\ pc = "collectCode"
    /\ UNCHANGED progress
    /\ readCount < Len(selectedFiles)
    /\ output' = output \o Section(selectedFiles[readCount + 1])
    /\ readCount' = readCount + 1
    /\ UNCHANGED << pc, error, files, written, config, outstanding, stages >>
    /\ UNCHANGED loopVars
    /\ UNCHANGED exitVars

\* ReadFileFail with the failure caught inside forEach: the file is skipped
ReadFileFailSkips ==
    /\ pc = "collectCode"
    /\ UNCHANGED progress
    /\ readCount < Len(selectedFiles)
    /\ error' = "FileReadError"
    /\ readCount' = readCount + 1
    /\ UNCHANGED << pc, files, written >>
    /\ UNCHANGED loopVars
    /\ UNCHANGED exitVars
    /\ UNCHANGED logVars

\* collectCode, one iteration of forEach: readFileSync throws, and the
\* document built so far is lost with collectCode's frame
ReadFileFail ==
    /\ pc = "collectCode"
    /\ UNCHANGED progress
    /\ readCount < Len(selectedFiles)
    /\ error' = "FileReadError"
    /\ output' = << >>
    /\ pc' = "catch"
    /\ UNCHANGED << files, config, outstanding, stages >>
    /\ UNCHANGED loopVars
    /\ UNCHANGED tailVars
    /\ UNCHANGED exitVars

\* collectCode returns the document and main calls writeOutput
CollectDone ==
    /\ pc = "collectCode"
    /\ UNCHANGED progress
    /\ readCount = Len(selectedFiles)
    /\ stages' = Append(stages, "writing")
    /\ pc' = "writeOutput"
    /\ UNCHANGED << error, files, config, output, outstanding >>
    /\ UNCHANGED loopVars
    /\ UNCHANGED tailVars
    /\ UNCHANGED exitVars

\* writeOutput writes the document, gzipped to <output>.gz when compress
WriteOk ==
    /\ pc = "writeOutput"
    /\ UNCHANGED progress
    /\ \E compress \in BOOLEAN :
        written' = IF compress THEN "gz" ELSE "plain"
    /\ pc' = "finally"
    /\ UNCHANGED << error, files, readCount >>
    /\ UNCHANGED loopVars
    /\ UNCHANGED exitVars
    /\ UNCHANGED logVars

\* writeOutput throws: gzip reports an error, or writeFileSync throws
WriteFail ==
    /\ pc = "writeOutput"
    /\ UNCHANGED progress
    /\ \E compress \in BOOLEAN, e \in {"CompressionError", "WriteError"} :
        /\ e = "CompressionError" => compress
        /\ error' = e
    /\ pc' = "catch"
    /\ UNCHANGED files
    /\ UNCHANGED loopVars
    /\ UNCHANGED tailVars
    /\ UNCHANGED exitVars
    /\ UNCHANGED logVars

\* catch (error): print the message; nothing is rethrown
Catch ==
    /\ pc = "catch"
    /\ UNCHANGED progress
    /\ pc' = "finally"
    /\ UNCHANGED << error, files >>
    /\ UNCHANGED loopVars
    /\ UNCHANGED tailVars
    /\ UNCHANGED exitVars
    /\ UNCHANGED logVars

\* Finally without rl.close()
FinallyNoClose ==
    /\ pc = "finally"
    /\ UNCHANGED progress
    /\ mainPromise' = "resolved"
    /\ pc' = "end"
    /\ UNCHANGED << error, files, rlOpen, exited, exitCode >>
    /\ UNCHANGED loopVars
    /\ UNCHANGED tailVars
    /\ UNCHANGED logVars

\* finally: rl.close(); main's promise resolves, as nothing was rethrown
Finally ==
    /\ pc = "finally"
    /\ UNCHANGED progress
    /\ rlOpen' = FALSE
    /\ mainPromise' = "resolved"
    /\ pc' = "end"
    /\ UNCHANGED << error, files, exited, exitCode >>
    /\ UNCHANGED loopVars
    /\ UNCHANGED tailVars
    /\ UNCHANGED logVars

\* the process ends: process.exit(1) in main().catch when the promise was
\* rejected; otherwise the event loop drains once the readline interface no
\* longer holds stdin, and the exit code is 0
Exit ==
    /\ pc = "end"
    /\ UNCHANGED progress
    /\ ~exited
    /\ mainPromise = "rejected" \/ ~rlOpen
    /\ exited' = TRUE
    /\ exitCode' = IF mainPromise = "rejected" THEN 1 ELSE 0
    /\ UNCHANGED << pc, error, files, rlOpen, mainPromise >>
    /\ UNCHANGED loopVars
    /\ UNCHANGED tailVars
    /\ UNCHANGED logVars

(* ---------------------------------------------------------------------- *)
(* Specifications                                                          *)
(* ---------------------------------------------------------------------- *)

Next ==
    \/ GetConfiguration
    \/ GetAllFilesResolve
    \/ GetAllFilesReject
    \/ Ask
    \/ FinishLoop
    \/ ReadAnswer
    \/ CaseYes
    \/ CaseNo
    \/ CasePattern
    \/ ReadPattern
    \/ MatchPattern
    \/ CaseQuit
    \/ CaseDefault
    \/ CheckSelection
    \/ ReadFileOk
    \/ ReadFileFail
    \/ CollectDone
    \/ WriteOk
    \/ WriteFail
    \/ Catch
    \/ Finally
    \/ Exit

Spec == Init /\ [][Next]_vars

\* the run is never suspended for ever: every line the program waits for is
\* eventually typed, and the user types at most MaxRetries lines that make
\* no progress
FairSpec == Spec /\ WF_vars(Next)

TypeOK ==
    /\ pc \in {"getConfiguration", "getAllFiles", "askForFile", "awaitAnswer",
               "switch", "awaitPattern", "matchPattern", "selected", "collectCode", "writeOutput",
               "catch", "finally", "end"}
    /\ files \in CandidateLists
    /\ index \in 0..Len(files)
    /\ selectedFiles \in Seq(Paths)
    /\ answer \in Answers \cup {NoAnswer}
    /\ pattern \in Patterns \cup {NoPattern}
    /\ returned \in BOOLEAN
    /\ readCount \in 0..Len(selectedFiles)
    /\ written \in {"none", "plain", "gz"}
    /\ rlOpen \in BOOLEAN
    /\ mainPromise \in {"pending", "resolved", "rejected"}
    /\ exited \in BOOLEAN
    /\ exitCode \in {0, 1}
    /\ retries \in 0..MaxRetries
    /\ outstanding \in 0..1
    /\ progress.thrown = "none"
    /\ progress.current \in 0..Len(files)
    /\ progress.total \in {0, Len(files)}
    /\ progress.percentage \in 0..100
    /\ Len(progress.bar) \in {0, barLength}
    /\ config \in {NoConfig} \cup [exclude : FieldKinds, include : FieldKinds]
    /\ error \in {"none", "ConfigError", "DirectoryNotFound", "PermissionDenied",
                  "ReadDirectoryError", "FileReadError", "CompressionError",
                  "WriteError"}
    /\ used \subseteq {"y", "n", "p", "q", "invalid"}

(* ---------------------------------------------------------------------- *)
(* Vocabulary of the properties                                            *)
(* ---------------------------------------------------------------------- *)

\* the positions of main() inside the askForFile loop
LoopPcs == {"askForFile", "awaitAnswer", "switch", "awaitPattern", "matchPattern"}

\* the loop has ended and selectFiles hands its selection to main
Done == pc = "selected"

\* the selection loop is entered or over, so its locals exist
InSelection == pc \in LoopPcs \/ Done

\* the position of a file in the candidate list (0 when it is not in it)
PosOf(f) ==
    IF \E p \in 1..Len(files) : files[p] = f
        THEN CHOOSE p \in 1..Len(files) : files[p] = f
        ELSE 0

\* the candidates at positions 1..n that were answered y, in list order
RECURSIVE AnsweredYes(_)
AnsweredYes(n) ==
    IF n = 0 THEN << >>
    ELSE IF decided[n] = "y" THEN Append(AnsweredYes(n - 1), files[n])
    ELSE AnsweredYes(n - 1)

\* s is a subsequence of the (duplicate-free) candidate list
IsSubsequenceOfFiles(s) ==
    /\ \A k \in 1..Len(s) : PosOf(s[k]) > 0
    /\ \A k, l \in 1..Len(s) : k < l => PosOf(s[k]) < PosOf(s[l])

NoDuplicates(s) == \A k, l \in 1..Len(s) : s[k] = s[l] => k = l

(* ---------------------------------------------------------------------- *)
(* Properties                                                              *)
(* ---------------------------------------------------------------------- *)

\* C1: when a candidate list of length N is answered with N lines that are
\* each y or n in any letter case, selectFiles returns exactly the candidates
\* answered y, in candidate-list order, and has read exactly N lines.
C1_YesNoSelection ==
    (Done /\ used \subseteq {"y", "n"}) =>
        /\ reads = Len(files)
        /\ \A p \in 1..Len(files) : decided[p] \in {"y", "n"}
        /\ selectedFiles = AnsweredYes(Len(files))

\* a run of three upper- and lower-case y/n answers that kept two files
C1_Witness ==
    /\ Done /\ used = {"y", "n"}
    /\ Len(files) = 3 /\ Len(selectedFiles) = 2 /\ reads = 3

\* C2: the step that applies the pattern P read at cursor i appends exactly the
\* candidates of candidates[i:] that match P, in slice order, and advances
\* the cursor by their number (by 0, with the selection unchanged, when none
\* matches).
C2_PatternBatch ==
    [][pc = "matchPattern" =>
        LET rest == SubSeq(files, index + 1, Len(files))
            matched == SelectSeq(rest, LAMBDA f : IsMatch(f, pattern))
        IN /\ selectedFiles' = selectedFiles \o matched
           /\ index' = index + Len(matched)
           /\ Len(matched) = 0 => selectedFiles' = selectedFiles /\ index' = index
    ]_vars

\* a pattern entered at cursor 1 has just added at least two files
C2_Witness ==
    /\ pc = "askForFile" /\ used = {"n", "p"} /\ reads = 3
    /\ Len(selectedFiles) >= 2 /\ index = 1 + Len(selectedFiles)

\* C3 (as stated): answering q at cursor i ends the loop with a selection
\* whose files all come from candidate positions below i, and no prompt is
\* issued once the loop has ended.
C3_QuitKeepsPositionsBelowCursor ==
    /\ [](Done /\ answer \in {"q", "Q"} =>
            \A k \in 1..Len(selectedFiles) :
                /\ PosOf(selectedFiles[k]) \in 1..index
                /\ decided[PosOf(selectedFiles[k])] \in {"y", "p"})
    /\ [][returned => pc' \notin LoopPcs]_vars

\* C4 (as stated): in every state of the selection the selection is a
\* subsequence of the candidate list and holds no file twice.
C4_SelectionIsSubsequence ==
    InSelection =>
        IsSubsequenceOfFiles(selectedFiles) /\ NoDuplicates(selectedFiles)

\* C5 (as stated): whenever the loop is about to ask or to finish, every
\* selected file lies at a candidate position strictly below the cursor.
C5_SelectionBelowCursor ==
    pc = "askForFile" =>
        \A k \in 1..Len(selectedFiles) : PosOf(selectedFiles[k]) \in 1..index

\* C6 (as stated): whenever the loop is about to ask or to finish, every
\* candidate below the cursor has been decided and the candidate at the
\* cursor has not been accepted.
C6_CursorIsNextUndecided ==
    pc = "askForFile" =>
        /\ \A p \in 1..index : decided[p] # "none"
        /\ index < Len(files) => decided[index + 1] \notin {"y", "p"}

\* C7: a line other than y, n, p or q in any letter case leaves the cursor
\* and the selection unchanged, and the loop goes back to ask about the same
\* candidate, however many such lines came before.
C7_InvalidAnswerChangesNothing ==
    [][(pc = "switch" /\ AnswerKind(answer) = "invalid") =>
        /\ index' = index
        /\ selectedFiles' = selectedFiles
        /\ pc' = "askForFile"
        /\ returned' = returned
    ]_vars

\* two invalid lines in a row, and the loop still asks about the first file
C7_Witness ==
    /\ pc = "awaitAnswer" /\ used = {"invalid"}
    /\ reads = 2 /\ retries = 2 /\ index = 0 /\ selectedFiles = << >>

C9_CursorMonotonic ==
    /\ index = 0
    /\ [][pc = "getAllFiles" => index' = 0]_vars
    /\ [][(pc \in LoopPcs) => (index' >= index)]_vars
    /\ [](index <= Len(files))

\* one pattern took the cursor from 0 to the end of a list of three
C9_Witness ==
    /\ pc = "askForFile" /\ used = {"p"} /\ reads = 2
    /\ index = 3 /\ Len(files) = 3

\* C10 (as stated): a run in which a fatal condition occurred exits with a
\* non-zero code, and with the readline interface closed.
C10_FatalExitsNonZero ==
    (exited /\ error # "none") => (exitCode # 0 /\ ~rlOpen)

(* ---------------------------------------------------------------------- *)
(* Vocabulary of the pipeline properties                                   *)
(* ---------------------------------------------------------------------- *)

\* the stages of the pipeline, in their order
StageOrder == << "configuration", "discovery", "selection", "assembly", "writing" >>

Started(stage) == \E k \in 1..Len(stages) : stages[k] = stage

IsPrefix(s, t) == Len(s) <= Len(t) /\ \A k \in 1..Len(s) : s[k] = t[k]

\* the stage that was started last
CurrentStage == IF stages = << >> THEN "none" ELSE stages[Len(stages)]

\* discovery has succeeded and found nothing
EmptyDiscovery == Started("discovery") /\ error = "none" /\ files = << >>

\* the merged configuration holds a value that is not an array of strings
BadConfig ==
    /\ config # NoConfig
    /\ config.exclude # "strings" \/ config.include # "strings"

\* the extension-to-tag table: the ten listed extensions, and the empty tag
\* for everything else
TableTag(file) ==
    LET ext == slice1(extname(file)) IN
    CASE ext = <<"j", "s">> -> "javascript"
      [] ext = <<"t", "s">> -> "typescript"
      [] ext = <<"p", "y">> -> "python"
      [] ext = <<"j", "a", "v", "a">> -> "java"
      [] ext = <<"c">> -> "c"
      [] ext = <<"c", "p", "p">> -> "cpp"
      [] ext = <<"h">> -> "cpp"
      [] ext = <<"h", "p", "p">> -> "cpp"
      [] ext = <<"c", "s", "s">> -> "css"
      [] ext = <<"h", "t", "m", "l">> -> "html"
      [] OTHER -> ""

\* the document of a selection: the title, then for each entry in order its
\* header, its fence tagged by the table, its content and the closing fence
RECURSIVE TableDocument(_)
TableDocument(sel) ==
    IF sel = << >> THEN << TitlePiece >>
    ELSE LET f == sel[Len(sel)] IN
         TableDocument(SubSeq(sel, 1, Len(sel) - 1)) \o
            << HeaderPiece(f), FenceOpenPiece(TableTag(f)), ContentPiece(f),
               FenceClosePiece >>

(* ---------------------------------------------------------------------- *)
(* Properties of the pipeline                                              *)
(* ---------------------------------------------------------------------- *)

\* C11: when discovery succeeds with no file, the selection loop is never
\* entered and no prompt is issued, nothing is read or written, and the run
\* exits with code 0.
C11_EmptyDiscoveryStops ==
    EmptyDiscovery =>
        /\ stages = << "configuration", "discovery" >>
        /\ pc \in {"finally", "end"}
        /\ outstanding = 0 /\ reads = 0 /\ ~returned
        /\ readCount = 0 /\ output = << >> /\ written = "none"
        /\ exited => exitCode = 0

\* a run that found no file has exited
C11_Witness ==
    EmptyDiscovery /\ exited /\ exitCode = 0 /\ config = defaultConfig

\* C12: when the loop ends with an empty selection no file is read, no
\* output file is written and the run exits with code 0; an output file is
\* written only when the selection is not empty.
C12_EmptySelectionStops ==
    /\ (returned /\ selectedFiles = << >>) =>
            /\ pc \in {"selected", "finally", "end"}
            /\ ~Started("assembly")
            /\ readCount = 0 /\ output = << >> /\ written = "none"
            /\ error = "none"
            /\ exited => exitCode = 0
    /\ written # "none" => Len(selectedFiles) > 0

\* a run whose loop returned an empty selection for two candidates has exited
C12_Witness ==
    /\ returned /\ selectedFiles = << >> /\ Len(files) = 2
    /\ exited /\ exitCode = 0

\* C13: when the merged include or exclude of an existing configuration file
\* is not an array of strings, the run fails with a configuration error
\* before discovery: discovery, selection, assembly and writing never run.
C13_BadConfigAborts ==
    BadConfig =>
        /\ error = "ConfigError"
        /\ stages = << "configuration" >>
        /\ pc \in {"catch", "finally", "end"}
        /\ files = << >> /\ outstanding = 0 /\ reads = 0 /\ ~returned
        /\ readCount = 0 /\ output = << >> /\ written = "none"

\* a run with "exclude": "notAnArray" has ended
C13_Witness ==
    /\ config = [exclude |-> "notArray", include |-> "strings"]
    /\ pc = "end" /\ error = "ConfigError"

\* C14 (as stated): the assembled document is the title followed by one
\* section per selection entry, in selection order, each with its header, its
\* fence tagged by the extension table, its content and the separator.
C14_DocumentIsTitleAndSections ==
    /\ pc = "collectCode" => output = TableDocument(SubSeq(selectedFiles, 1, readCount))
    /\ pc = "writeOutput" => output = TableDocument(selectedFiles)

\* C15 (as stated): for every file whose section was assembled, the tag is
\* the listed one for the ten listed extensions and empty for any other.
C15_ExtensionTableIsTotal ==
    \A k \in 1..readCount :
        getFileExtension(selectedFiles[k]) = TableTag(selectedFiles[k])

\* C16: once reading a selected file has failed, the writer never runs and
\* no output file is written, however many files were read before.
C16_ReadFailureWritesNothing ==
    error = "FileReadError" =>
        /\ pc \in {"catch", "finally", "end"}
        /\ ~Started("writing")
        /\ written = "none"
        /\ exited => output = << >>

\* the second selected file could not be read, and the run has ended
C16_Witness ==
    /\ error = "FileReadError" /\ readCount = 1 /\ Len(selectedFiles) >= 2
    /\ exited /\ written = "none"

\* C17: the stages start in pipeline order, each after the one before it has
\* completed; at most one prompt is outstanding, and none outside the
\* selection loop, so none while a file is read or the output written.
C17_StagesInOrder ==
    /\ IsPrefix(stages, StageOrder)
    /\ outstanding \in {0, 1}
    /\ outstanding = 1 <=> pc \in {"awaitAnswer", "awaitPattern"}
    /\ pc = "getConfiguration" => stages = << >>
    /\ pc = "getAllFiles" => CurrentStage = "configuration"
    /\ pc \in LoopPcs => CurrentStage = "selection" /\ ~returned
    /\ pc = "selected" => CurrentStage = "selection" /\ returned
    /\ pc = "collectCode" => CurrentStage = "assembly" /\ returned
    /\ pc = "writeOutput" =>
            CurrentStage = "writing" /\ readCount = Len(selectedFiles)
    /\ readCount > 0 => Started("assembly")
    /\ written # "none" => CurrentStage = "writing"

\* all five stages have started and the output is about to be written
C17_Witness ==
    /\ pc = "writeOutput" /\ stages = StageOrder
    /\ readCount = 2 /\ outstanding = 0

\* C18 (as stated): the readline interface is closed once the loop has
\* reached Done, so it is not open while assembly or writing runs.
C18_ClosedBeforeAssembly ==
    (returned /\ pc \in {"collectCode", "writeOutput"}) => ~rlOpen

\* C18 (amended): the readline interface is closed in main's finally block,
\* after every stage that ran has ended, and before the process exits; until
\* then, also during assembly and writing, it is open.
C18_ClosedInFinally ==
    /\ rlOpen <=> pc # "end"
    /\ exited => ~rlOpen

\* the output was written and the interface closed after it
C18_Witness ==
    /\ pc = "end" /\ ~rlOpen /\ written # "none" /\ stages = StageOrder

\* C19: the step that applies a pattern at cursor i appends no candidate
\* from a position below i (positions count from 0; PosOf counts from 1).
C19_PatternNeverReachesBack ==
    [][pc = "matchPattern" =>
        /\ Len(selectedFiles') >= Len(selectedFiles)
        /\ \A k \in (Len(selectedFiles) + 1)..Len(selectedFiles') :
                PosOf(selectedFiles'[k]) > index
    ]_vars

\* a.js and b.ts were rejected, then a pattern added c.js only, although
\* every pattern that matches c.js matches a.js as well
C19_Witness ==
    /\ pc = "askForFile" /\ Len(files) = 3
    /\ files[1] = <<"a", ".", "j", "s">> /\ files[3] = <<"c", ".", "j", "s">>
    /\ decided = << "n", "n", "p" >>
    /\ selectedFiles = << files[3] >>

\* C20: every step leaves the selection it found as a prefix of the
\* selection it leaves, and the step that ends the loop hands over the
\* selection unchanged.
C20_SelectionAppendOnly ==
    /\ [][IsPrefix(selectedFiles, selectedFiles')]_vars
    /\ [][Done' => selectedFiles' = selectedFiles]_vars

\* three files were accepted one after the other, by y and by a pattern
C20_Witness ==
    /\ Done /\ Len(selectedFiles) = 3 /\ used = {"y", "p"}
    /\ selectedFiles = files

(* ---------------------------------------------------------------------- *)
(* The progress line                                                       *)
(* ---------------------------------------------------------------------- *)

\* the filled cells of a progress line
Filled(line) == Cardinality({k \in 1..Len(line.bar) : line.bar[k] = "#"})

\* the empty cells of a progress line
Empty(line) == Cardinality({k \in 1..Len(line.bar) : line.bar[k] = "-"})

\* the program waits at a prompt of the selection loop
AtPrompt == pc \in {"awaitAnswer", "switch", "awaitPattern", "matchPattern"}

\* C21: at every prompt for cursor i < N the progress line on the screen was
\* drawn with current = i + 1 and total = N, so 1 <= current <= N and N > 0;
\* its filled width is round(30 * current / N) and lies in 0..30, filled
\* and empty cells together are exactly 30, the percentage is at most 100,
\* and drawing it never throws for a negative repeat count
C21_ProgressWithinBar ==
    /\ error # "RangeError"
    /\ AtPrompt =>
        /\ index < Len(files)
        /\ progress.current = index + 1
        /\ progress.total = Len(files)
        /\ progress.total > 0
        /\ 1 <= progress.current /\ progress.current <= progress.total
        /\ 2 * progress.total * Filled(progress) <=
               2 * barLength * progress.current + progress.total
        /\ 2 * barLength * progress.current + progress.total <
               2 * progress.total * (Filled(progress) + 1)
        /\ Filled(progress) \in 0..barLength
        /\ Filled(progress) + Empty(progress) = barLength
        /\ Len(progress.bar) = barLength
        /\ progress.percentage \in 0..100

\* the second of three candidates is on the prompt: 2/3, twenty cells of
\* thirty filled, 67%
C21_Witness ==
    /\ pc = "awaitAnswer" /\ Len(files) = 3 /\ index = 1
    /\ progress.current = 2 /\ progress.total = 3
    /\ Filled(progress) = 20 /\ Empty(progress) = 10
    /\ progress.percentage = 67

====
